---------------------------- MODULE Spec2Model ----------------------------
(***************************************************************************)
(* Model of src/vpn.py: WindowsWireGuardTunnel.run() and main().           *)
(*                                                                         *)
(* The program is one sequential flow.  Every call that leaves the process *)
(* (a subprocess, an HTTP request, a DNS lookup, a file operation) is one  *)
(* step whose outcome is drawn from the outcomes the call can have in      *)
(* Python: a result, or a raised Exception.  A KeyboardInterrupt (Ctrl+C)  *)
(* may be raised at any step; where it lands depends on the try blocks     *)
(* around that step (a bare "except:" catches it, "except Exception" does  *)
(* not).                                                                   *)
(***************************************************************************)
EXTENDS Naturals, Sequences, FiniteSets, TLC

\* Bounds of the model.
MaxChecks ==
    2
MaxInterrupts ==
    2
MaxLines ==
    4

\* Literals of the source.
VpnServerIp ==
    "34.102.88.164"
HardcodedOriginalIp ==
    "49.145.198.195"
UnableToDetermine ==
    "Unable to determine"
OtherIp ==
    "203.0.113.7"
IpTexts ==
    {VpnServerIp, HardcodedOriginalIp, OtherIp}

\* ---- parse_config(), lines 100-128, on lines made of tokens ----
\* A line is a sequence of tokens: " " (white space), "#", "[", "]", "=", or a
\* word without any of these characters.

\* str.strip(), lines 106 and 108, 118-119: white space at both ends goes.
RECURSIVE LStrip(_)
LStrip(l) ==
    IF l # <<>> /\ Head(l) = " " THEN LStrip(Tail(l)) ELSE l

RECURSIVE RStrip(_)
RStrip(l) ==
    IF l # <<>> /\ l[Len(l)] = " " THEN RStrip(SubSeq(l, 1, Len(l) - 1)) ELSE l

Strip(l) ==
    RStrip(LStrip(l))

\* str.lower() of a word, line 113, for the words the headers are made of.
LowerWord(t) ==
    CASE t \in {"Interface", "INTERFACE", "interface"} -> "interface"
      [] t \in {"Peer", "PEER", "peer"} -> "peer"
      [] t \in {"Other", "other"} -> "other"
      [] OTHER -> t

Lower(l) ==
    [i \in DOMAIN l |-> LowerWord(l[i])]

\* Line 112: line.startswith('[') and line.endswith(']').
IsHeader(line) ==
    line # <<>> /\ Head(line) = "[" /\ line[Len(line)] = "]"

\* Line 113: line[1:-1].
Inner(line) ==
    SubSeq(line, 2, Len(line) - 1)

\* Line 116: '=' in line.
HasEq(line) ==
    \E i \in DOMAIN line : line[i] = "="

\* Line 117: line.split('=', 1), the parts around the first '='; one part
\* when there is no '='.
Split(line) ==
    IF HasEq(line)
    THEN LET i == CHOOSE j \in DOMAIN line :
                     line[j] = "=" /\ \A h \in 1..(j - 1) : line[h] # "="
         IN  <<SubSeq(line, 1, i - 1), SubSeq(line, i + 1, Len(line))>>
    ELSE <<line>>

\* Mutant of Store: a key already present keeps its value.
Store_first_wins(f, k, v) ==
    f @@ (k :> v)

\* Lines 122 and 124: dict[key] = value.
Store(f, k, v) ==
    (k :> v) @@ f

\* Lines 101-106: the state of parse_config() before its loop.
ParseStart(lines) ==
    [lines |-> lines, i |-> 1, current_section |-> <<"None">>,
     interface_config |-> <<>>, peer_config |-> <<>>, raised |-> FALSE]

\* Lines 107-124: one iteration of the loop, on line st.lines[st.i].
\* `key, value = ...` (line 117) raises ValueError unless there are two parts.
ParseLine(st) ==
    LET line == Strip(st.lines[st.i])
        next == [st EXCEPT !.i = @ + 1]
        parts == Split(line)
        key == Strip(parts[1])
        value == Strip(parts[2])
    IN  IF line = <<>> \/ Head(line) = "#" THEN next
        ELSE IF IsHeader(line)
             THEN [next EXCEPT !.current_section = Lower(Inner(line))]
        ELSE IF HasEq(line)
             THEN IF Len(parts) # 2 THEN [st EXCEPT !.raised = TRUE]
                  ELSE IF st.current_section = <<"interface">>
                       THEN [next EXCEPT !.interface_config = Store(@, key, value)]
                  ELSE IF st.current_section = <<"peer">>
                       THEN [next EXCEPT !.peer_config = Store(@, key, value)]
                  ELSE next
        ELSE next

\* The loop of lines 107-124 run to its end.
RECURSIVE ParseAll(_)
ParseAll(st) ==
    IF st.i > Len(st.lines) \/ st.raised THEN st ELSE ParseAll(ParseLine(st))

\* main(), lines 454-465: the configuration text, line by line.
MainConfig ==
    << <<"[", "Interface", "]">>,
       <<"PrivateKey", " ", "=", " ", "wLy94QgcI4YdpjXv4qFbJBqTFBlCNJQ4Kkaciu2RNGA", "=">>,
       <<"Address", " ", "=", " ", "10.49.0.4/32">>,
       <<"DNS", " ", "=", " ", "172.21.156.241">>,
       <<"MTU", " ", "=", " ", "1380">>,
       <<>>,
       <<"[", "Peer", "]">>,
       <<"PublicKey", " ", "=", " ", "p0WqIapEnqA27uVZT5LKXQxHjrfiFL1kEJpXJcpV3DI", "=">>,
       <<"PresharedKey", " ", "=", " ", "PijhVjJgo2lVa7B2LTV7LZm102K0ktKDzjnK3Qfbegk", "=">>,
       <<"AllowedIPs", " ", "=", " ", "0.0.0.0/0,", " ", "::/0">>,
       <<"Endpoint", " ", "=", " ", "34.102.88.164:443">> >>

\* Configuration lines the parse is tried on: white space only, a comment
\* holding '=', the two headers in other spellings, an unknown header, a key,
\* the same key with another value (holding '=') and white space around, a
\* line without '='.
ConfigLines ==
    { <<" ">>,
      <<"#", "Address", "=", "10.0.0.1">>,
      <<"[", "Interface", "]">>,
      <<" ", "[", "PEER", "]", " ">>,
      <<"[", "Other", "]">>,
      <<"Address", "=", "10.0.0.1">>,
      <<" ", "Address", " ", "=", " ", "10.0.0.2", "=", " ">>,
      <<"Address", " ", "10.0.0.1">> }

VARIABLES
    pc,             \* position of the flow in run() / main()
    stack,          \* continuations of the procedure calls in progress
    result,         \* how run() ended: "none", "True", "False", "KeyboardInterrupt", "crash"
    wgExe,          \* os.path.exists(wireguard.exe) on this machine
    wireguard_path, \* self.wireguard_path: "None", "dir" or "" (system PATH)
    config_file,    \* self.config_file: "None" or "set"
    onDisk,         \* the ConfigArtifact exists on disk
    original_ip,    \* run()'s local original_ip
    new_ip,         \* test_connection()'s local new_ip
    success,        \* run()'s local success (line 411): "unset", "True" or "False"
    operand,        \* operand of the `or` chain of run() being evaluated (1..3); 0: call from the loop
    wgShow,         \* what `wg show` gave in the current health check
    scQuery,        \* what `sc query` gave in the current health check
    log,            \* strategy invocations of the bring-up: <<strategy, outcome>>
    epLog,          \* strategy invocations of the current restart attempt
    stopLog,        \* shutdown commands the current stop_tunnel_windows call has issued
    tcLog,          \* what test_connection and diagnose_windows_connection did
    cnt,            \* counters: checks, down, absent, restarts, ints, stops, unlinkFails
    flags,          \* notAdmin, restartFailed, unexpected, stopEscaped, checkError
    snap,           \* state left by the first of two teardown runs
    cfg             \* parse_config(): its lines, its position and the two mappings

vars ==
    <<pc, stack, result, wgExe, wireguard_path, config_file, onDisk, original_ip,
      new_ip, success, operand, wgShow, scQuery, log, epLog, stopLog, tcLog, cnt, flags,
      snap, cfg>>

env ==
    <<wgExe, cfg>>
mgr ==
    <<wireguard_path, config_file, onDisk>>
ips ==
    <<original_ip, new_ip>>
health ==
    <<wgShow, scQuery>>
hist ==
    <<log, epLog, stopLog, tcLog, cnt, flags, snap>>

Cnt0 ==
    [checks |-> 0, down |-> 0, absent |-> 0, restarts |-> 0, ints |-> 0,
     stops |-> 0, unlinkFails |-> 0]
Flags0 ==
    [notAdmin |-> FALSE, restartFailed |-> FALSE, unexpected |-> FALSE,
     stopEscaped |-> FALSE, checkError |-> FALSE]
NoSnap ==
    [taken |-> FALSE, hadArtifact |-> FALSE, mgr |-> <<"None", "None", FALSE>>, stopLog |-> <<>>]

\* State after WindowsWireGuardTunnel(config) is constructed and run() is entered.
Init ==
    /\ pc = "is_admin"
    /\ stack = <<>>
    /\ result = "none"
    /\ wgExe \in BOOLEAN
    /\ wireguard_path = "None"
    /\ config_file = "None"
    /\ onDisk = FALSE
    /\ original_ip = "None"
    /\ new_ip = "None"
    /\ success = "unset"
    /\ operand = 1
    /\ wgShow = "notrun"
    /\ scQuery = "notrun"
    /\ log = <<>>
    /\ epLog = <<>>
    /\ stopLog = <<>>
    /\ tcLog = <<>>
    /\ cnt = Cnt0
    /\ flags = Flags0
    /\ snap = NoSnap
    /\ cfg = ParseAll(ParseStart(MainConfig))

\* run() leaves before its try block (lines 395, 399, 407): no finally runs.
ReturnEarly(r) ==
    /\ pc' = "done"
    /\ result' = r
    /\ stack' = <<>>

\* Mutant of NotElevated: the missing privilege is reported and run() goes on.
NotElevated_warn_only ==
    /\ pc' = "find_paths"
    /\ flags' = [flags EXCEPT !.notAdmin = TRUE]
    /\ UNCHANGED <<stack, result>>

\* run(), lines 392-395: is_admin() gave False, run() prints and returns False.
NotElevated ==
    /\ ReturnEarly("False")
    /\ flags' = [flags EXCEPT !.notAdmin = TRUE]

\* is_admin(), lines 31-36, and its use at lines 392-395.
\*   "error": IsUserAnAdmin() raises, the bare except returns False.
is_admin ==
    /\ pc = "is_admin"
    /\ \E o \in {"admin", "notadmin", "error"} :
          IF o = "admin"
          THEN pc' = "find_paths" /\ UNCHANGED <<stack, result, flags>>
          ELSE NotElevated
    /\ UNCHANGED <<env, success, mgr, ips, operand, health, log, epLog, stopLog, tcLog, cnt, snap>>

\* find_wireguard_installation(), lines 48-52: the known install directories.
find_known_paths ==
    /\ pc = "find_paths"
    /\ \E found \in BOOLEAN :
          IF found
          THEN pc' = "ip0_primary" /\ wireguard_path' = "dir"
          ELSE pc' = "find_PATH" /\ UNCHANGED wireguard_path
    /\ UNCHANGED <<stack, result, env, success, config_file, onDisk, ips, operand, health, hist>>

\* find_wireguard_installation(), lines 55-63: `wg --version` via the search path.
\* Only FileNotFoundError is caught; another OSError leaves run() and main().
find_in_PATH ==
    /\ pc = "find_PATH"
    /\ \E o \in {"rc0", "nonzero", "FileNotFoundError", "OSError"} :
          CASE o = "rc0" ->
                 pc' = "ip0_primary" /\ wireguard_path' = "" /\ UNCHANGED <<stack, result>>
            [] o \in {"nonzero", "FileNotFoundError"} ->
                 pc' = "find_registry" /\ UNCHANGED <<wireguard_path, stack, result>>
            [] OTHER ->
                 ReturnEarly("crash") /\ UNCHANGED wireguard_path
    /\ UNCHANGED <<env, success, config_file, onDisk, ips, operand, health, hist>>

\* find_wireguard_installation(), lines 65-78: the installation registry.
find_in_registry ==
    /\ pc = "find_registry"
    /\ \E o \in {"found", "noexe", "FileNotFoundError", "OSError"} :
          IF o = "found"
          THEN pc' = "ip0_primary" /\ wireguard_path' = "dir" /\ UNCHANGED <<stack, result>>
          ELSE ReturnEarly("False") /\ UNCHANGED wireguard_path
    /\ UNCHANGED <<env, success, config_file, onDisk, ips, operand, health, hist>>

find_wireguard_installation ==
    \/ find_known_paths
    \/ find_in_PATH
    \/ find_in_registry


\* What a procedure's caller does when the procedure returns.
\*   "ret_true"  : run() line 445, after the finally block
\*   "ret_false" : run() line 417, completed by the finally block
\*   "raise_ki"  : a KeyboardInterrupt leaves run(); main() lines 471-473 clean up
\*   "main_exit" : main() ends after its own cleanup_windows()
\*   "cl_exists" : the finally block of run(), line 443, calls cleanup_windows()
Continue(label, rest) ==
    CASE label = "ret_true" ->
           pc' = "done" /\ result' = "True" /\ stack' = rest
      [] label = "ret_false" ->
           pc' = "done" /\ result' = "False" /\ stack' = rest
      [] label = "raise_ki" ->
           pc' = "cl_exists" /\ result' = "KeyboardInterrupt" /\ stack' = <<"main_exit">>
      [] label = "main_exit" ->
           pc' = "done" /\ result' = result /\ stack' = rest
      [] OTHER ->
           pc' = label /\ result' = result /\ stack' = rest

\* get_real_ip(), lines 130-140: what the two lookups lead to.
\* `o` is the response text, or "error" when requests.get raises.
get_real_ip_primary(o) ==
    IF o = "error" THEN [again |-> TRUE, ip |-> "None"] ELSE [again |-> FALSE, ip |-> o]

get_real_ip_secondary(o) ==
    IF o = "error" THEN UnableToDetermine ELSE o

\* A procedure returns to the continuation its caller left.
Return(stk) ==
    Continue(Head(stk), Tail(stk))

\* get_real_ip() hands its value to its caller: run() line 402 (original_ip)
\* or test_connection() line 309 (new_ip).
GotIp(ip) ==
    IF pc \in {"ip0_primary", "ip0_secondary"}
    THEN pc' = "create" /\ original_ip' = ip /\ UNCHANGED new_ip
    ELSE pc' = "tc_classify" /\ new_ip' = ip /\ UNCHANGED original_ip

\* get_real_ip(), lines 130-140.
get_real_ip ==
    /\ \E o \in IpTexts \cup {"error"} :
          \/ /\ pc \in {"ip0_primary", "tc_primary"}
             /\ IF get_real_ip_primary(o).again
                THEN /\ pc' = (IF pc = "ip0_primary" THEN "ip0_secondary" ELSE "tc_secondary")
                     /\ UNCHANGED ips
                ELSE GotIp(get_real_ip_primary(o).ip)
          \/ /\ pc \in {"ip0_secondary", "tc_secondary"}
             /\ GotIp(get_real_ip_secondary(o))
    /\ UNCHANGED <<stack, result, env, success, mgr, operand, health, hist>>

\* create_config_file(), lines 142-156, and its use at lines 406-407.
create_config_file ==
    /\ pc = "create"
    /\ config_file' = "set"
    /\ \E o \in {"ok", "open_fails", "write_fails"} :
          /\ onDisk' = IF o = "open_fails" THEN onDisk ELSE TRUE
          /\ IF o = "ok"
             THEN pc' = "svc" /\ UNCHANGED <<stack, result>>
             ELSE ReturnEarly("False")
    /\ UNCHANGED <<env, success, wireguard_path, ips, operand, health, hist>>

\* The strategy a failed strategy hands over to (lines 187-193, 212-216).
Fallback(s) ==
    IF s = "svc" THEN "quick" ELSE "manual"

\* The strategy an operand of the `or` chain of run() calls (lines 411-413).
OperandEntry(n) ==
    CASE n = 1 -> "svc" [] n = 2 -> "quick" [] OTHER -> "manual"

\* Mutant of RestartEntry: the restart re-runs the whole chain.
RestartEntry_full_chain ==
    "svc"

\* The strategy the supervision loop calls to restart (line 433).
RestartEntry ==
    "quick"

\* A strategy invocation is recorded in the log of the bring-up or of the restart.
Logged(s, ok) ==
    IF operand = 0
    THEN epLog' = Append(epLog, <<s, ok>>) /\ UNCHANGED log
    ELSE log' = Append(log, <<s, ok>>) /\ UNCHANGED epLog

\* Mutant of ChainExhausted: the `return False` of line 417 is missing.
ChainExhausted_no_return ==
    /\ success' = "False"
    /\ pc' = "tc_sleep"
    /\ UNCHANGED stack

\* run(), lines 415-417: every operand of the chain returned False.
ChainExhausted ==
    /\ success' = "False"
    /\ pc' = "cl_exists"
    /\ stack' = <<"ret_false">>

\* Mutant of RestartFailed: the loop goes on (no `break`) and checks again.
RestartFailed_no_break ==
    /\ flags' = [flags EXCEPT !.restartFailed = TRUE]
    /\ pc' = "sleep"
    /\ UNCHANGED stack

\* run(), lines 433-434: the restart returned False, `break` leaves the loop;
\* the finally block runs and run() returns True (line 445).
RestartFailed ==
    /\ flags' = [flags EXCEPT !.restartFailed = TRUE]
    /\ pc' = "cl_exists"
    /\ stack' = <<"ret_true">>

\* Strategy `s` returned `ok` to its outermost caller: the `or` chain of run()
\* (lines 411-417) or the loop (lines 433-434). A restart that succeeds ends
\* the Degraded episode, and its log with it.
StrategyReturns(s, ok) ==
    IF operand = 0
    THEN IF ok
         THEN /\ pc' = "sleep"
              /\ epLog' = <<>>
              /\ flags' = [flags EXCEPT !.checkError = FALSE]
              /\ UNCHANGED <<stack, operand, log, success>>
         ELSE /\ RestartFailed
              /\ Logged(s, ok)
              /\ UNCHANGED <<operand, success>>
    ELSE /\ Logged(s, ok)
         /\ IF ok
            THEN /\ success' = "True"
                 /\ pc' = "tc_sleep"
                 /\ UNCHANGED <<stack, operand, flags>>
            ELSE IF operand < 3
                 THEN /\ operand' = operand + 1
                      /\ pc' = OperandEntry(operand + 1)
                      /\ UNCHANGED <<stack, flags, success>>
                 ELSE /\ ChainExhausted
                      /\ UNCHANGED <<operand, flags>>

\* Strategy `s` failed and calls the next one in its return statement.
FallsBack(s) ==
    /\ pc' = Fallback(s)
    /\ Logged(s, FALSE)
    /\ UNCHANGED <<stack, operand, flags, success>>

\* start_tunnel_windows_service(), lines 168-193.
start_tunnel_windows_service ==
    /\ pc = "svc"
    /\ \E o \in {"ok", "nonzero", "error", "absent"} :
          /\ (o = "absent") = ~wgExe
          /\ IF o = "ok" THEN StrategyReturns("svc", TRUE) ELSE FallsBack("svc")
    /\ UNCHANGED <<result, env, mgr, ips, health, stopLog, tcLog, cnt, snap>>

\* start_tunnel_wg_quick(), lines 195-216.
start_tunnel_wg_quick ==
    /\ pc = "quick"
    /\ \E o \in {"ok", "nonzero", "error"} :
          IF o = "ok" THEN StrategyReturns("quick", TRUE) ELSE FallsBack("quick")
    /\ cnt' = IF operand = 0 THEN [cnt EXCEPT !.restarts = @ + 1] ELSE cnt
    /\ UNCHANGED <<result, env, mgr, ips, health, stopLog, tcLog, snap>>

\* start_tunnel_manual_windows(), lines 218-250.
start_tunnel_manual_windows ==
    /\ pc = "manual"
    /\ \E o \in {"ok", "nonzero", "error"} :
          StrategyReturns("manual", o = "ok")
    /\ UNCHANGED <<result, env, mgr, ips, health, stopLog, tcLog, cnt, snap>>

\* test_connection(), lines 313-318: the classification of the observed IP.
classify(ip) ==
    IF ip = VpnServerIp THEN "confirmed changed"
    ELSE IF ip # HardcodedOriginalIp THEN "changed (unconfirmed)"
    ELSE "unchanged"

\* test_connection(), lines 303-306. An Exception raised in the try block of
\* run() outside the wrapped calls lands in `except Exception`, lines 439-440.
test_connection_sleep ==
    /\ pc = "tc_sleep"
    /\ \E o \in {"ok", "exception"} :
          IF o = "ok"
          THEN pc' = "tc_primary" /\ UNCHANGED <<stack, flags>>
          ELSE /\ pc' = "cl_exists"
               /\ stack' = <<"ret_true">>
               /\ flags' = [flags EXCEPT !.unexpected = TRUE]
    /\ UNCHANGED <<result, env, success, mgr, ips, operand, health, log, epLog, stopLog, tcLog, cnt, snap>>

\* test_connection(), lines 313-319: the class is printed, and diagnostics
\* run when the observed IP is the hardcoded one.
test_connection_classify ==
    /\ pc = "tc_classify"
    /\ tcLog' = Append(tcLog, classify(new_ip))
    /\ pc' = IF classify(new_ip) = "unchanged" THEN "diag_wg" ELSE "tc_dns"
    /\ UNCHANGED <<stack, result, env, success, mgr, ips, operand, health, log, epLog, stopLog, cnt, flags, snap>>

\* The step of diagnose_windows_connection() after step `p`.
DiagNext(p) ==
    CASE p = "diag_wg" -> "diag_ipconfig"
      [] p = "diag_ipconfig" -> "diag_route"
      [] OTHER -> "tc_dns"

\* diagnose_windows_connection(), lines 338-375: one try block around the three steps.
diagnose_windows_connection ==
    /\ pc \in {"diag_wg", "diag_ipconfig", "diag_route"}
    /\ tcLog' = Append(tcLog, pc)
    /\ \E o \in {"ok", "error"} :
          pc' = IF o = "ok" THEN DiagNext(pc) ELSE "tc_dns"
    /\ UNCHANGED <<stack, result, env, success, mgr, ips, operand, health, log, epLog, stopLog, cnt, flags, snap>>

\* Mutant of AfterDns: a failing DNS test ends verification.
AfterDns_abort(o) ==
    IF o = "error" THEN "sleep" ELSE "tc_http"

\* test_connection(), lines 321-328: the DNS test's failure is caught and
\* printed (bare except, line 325); the HTTP test follows either way.
AfterDns(o) ==
    "tc_http"

\* test_connection(), lines 321-326.
test_connection_dns ==
    /\ pc = "tc_dns"
    /\ tcLog' = Append(tcLog, "dns")
    /\ \E o \in {"ok", "error"} : pc' = AfterDns(o)
    /\ UNCHANGED <<stack, result, env, success, mgr, ips, operand, health, log, epLog, stopLog, cnt, flags, snap>>

\* test_connection(), lines 328-336, then run() lines 422-427 enter the loop.
test_connection_http ==
    /\ pc = "tc_http"
    /\ tcLog' = Append(tcLog, "http")
    /\ \E o \in {"200", "non200", "error"} : pc' = "sleep"
    /\ UNCHANGED <<stack, result, env, success, mgr, ips, operand, health, log, epLog, stopLog, cnt, flags, snap>>

test_connection ==
    \/ test_connection_sleep
    \/ test_connection_classify
    \/ test_connection_dns
    \/ test_connection_http

\* run(), line 428: time.sleep(30), then the health check starts.
supervision_sleep ==
    /\ pc = "sleep"
    /\ cnt.checks < MaxChecks
    /\ pc' = "check_wg"
    /\ UNCHANGED <<stack, result, env, success, mgr, ips, operand, health, hist>>

\* Mutant of check_tunnel_status_windows: a query that raised counts as "up".
check_tunnel_status_windows_error_up(wg, sc) ==
    wg = "present" \/ sc = "running" \/ wg = "error" \/ sc = "error"

\* Mutant of check_tunnel_status_windows: the service list is not consulted.
check_tunnel_status_windows_engine_only(wg, sc) ==
    wg = "present"

\* check_tunnel_status_windows(), lines 252-269: its return value.
\*   wg: "present" (rc 0 and the interface in stdout), "absent", "error" (raised)
\*   sc: "running" (RUNNING in stdout), "stopped", "error" (raised), "notrun"
check_tunnel_status_windows(wg, sc) ==
    IF wg = "error" THEN FALSE
    ELSE IF wg = "present" THEN TRUE
    ELSE IF sc = "error" THEN FALSE
    ELSE sc = "running"

\* run(), lines 429-434: what the loop does with the health check's value.
\* The queries' outputs are locals of check_tunnel_status_windows(): gone on return;
\* flags.checkError tells, for the Degraded episode, that a query had raised.
CheckReturns(up, wg, sc) ==
    /\ cnt' = [cnt EXCEPT !.checks = @ + 1,
                          !.down = IF up THEN @ ELSE @ + 1,
                          !.absent = IF wg # "present" /\ sc # "running" THEN @ + 1 ELSE @]
    /\ flags' = [flags EXCEPT !.checkError = (wg = "error" \/ sc = "error")]
    /\ wgShow' = "notrun"
    /\ scQuery' = "notrun"
    /\ IF up
       THEN pc' = "sleep" /\ UNCHANGED <<operand, epLog>>
       ELSE pc' = RestartEntry /\ operand' = 0 /\ epLog' = <<>>

\* check_tunnel_status_windows() called from the loop, line 429.
health_check ==
    /\ \/ /\ pc = "check_wg"
          /\ \E o \in {"present", "absent", "error"} :
                IF o = "absent"
                THEN /\ pc' = "check_sc"
                     /\ wgShow' = o
                     /\ UNCHANGED <<scQuery, cnt, operand, epLog, flags>>
                ELSE CheckReturns(check_tunnel_status_windows(o, "notrun"), o, "notrun")
       \/ /\ pc = "check_sc"
          /\ \E o \in {"running", "stopped", "error"} :
                CheckReturns(check_tunnel_status_windows(wgShow, o), wgShow, o)
    /\ UNCHANGED <<stack, result, env, success, mgr, ips, log, stopLog, tcLog, snap>>

\* An Exception raised inside stop_tunnel_windows(), lines 297-299: caught,
\* the function returns False and the commands after the failing one are skipped.
StopOnError ==
    Return(stack) /\ UNCHANGED flags

\* stop_tunnel_windows(), lines 271-299: one try block around the three commands.
stop_tunnel_windows ==
    /\ \/ /\ pc = "stop_sc"
          /\ \E o \in {"ok", "nonzero", "error"} :
                /\ stopLog' = Append(stopLog, "sc_stop")
                /\ IF o = "error"
                   THEN StopOnError
                   ELSE pc' = "stop_quick" /\ UNCHANGED <<stack, result, flags>>
       \/ /\ pc = "stop_quick"
          /\ \E o \in {"ok", "nonzero", "error"} :
                /\ config_file = "None" => o = "error"
                /\ stopLog' = Append(stopLog, "quick_down")
                /\ IF o = "error"
                   THEN StopOnError
                   ELSE pc' = "stop_uninstall" /\ UNCHANGED <<stack, result, flags>>
       \/ /\ pc = "stop_uninstall"
          /\ IF wgExe
             THEN \E o \in {"ok", "nonzero", "error"} :
                     /\ stopLog' = Append(stopLog, "uninstall")
                     /\ IF o = "error" THEN StopOnError ELSE Return(stack) /\ UNCHANGED flags
             ELSE Return(stack) /\ UNCHANGED <<stopLog, flags>>
    /\ UNCHANGED <<env, success, mgr, ips, operand, health, log, epLog, tcLog, cnt, snap>>

\* cleanup_windows(), line 381-384: os.unlink and the bare except around it.
Unlink(ok) ==
    /\ onDisk' = IF ok THEN FALSE ELSE onDisk
    /\ cnt' = IF ok THEN cnt ELSE [cnt EXCEPT !.unlinkFails = @ + 1]

\* Mutant of CleanupNeeded: the existence test is inverted.
CleanupNeeded_inverted ==
    config_file = "set" /\ ~onDisk

\* cleanup_windows(), line 379: the path is set and the file exists.
CleanupNeeded ==
    config_file = "set" /\ onDisk

\* cleanup_windows(), lines 377-384.
cleanup_windows ==
    /\ \/ /\ pc = "cl_exists"
          /\ IF CleanupNeeded
             THEN pc' = "cl_unlink" /\ UNCHANGED <<stack, result>>
             ELSE Return(stack)
          /\ UNCHANGED <<onDisk, cnt>>
       \/ /\ pc = "cl_unlink"
          /\ \E ok \in BOOLEAN : Unlink(ok)
          /\ Return(stack)
    /\ UNCHANGED <<env, success, wireguard_path, config_file, ips, operand, health,
                   log, epLog, stopLog, tcLog, flags, snap>>

\* Steps inside a bare `except:` (lines 35, 135, 139, 325, 383): it catches
\* KeyboardInterrupt like any other exception.
SwallowPcs ==
    {"is_admin", "ip0_primary", "ip0_secondary", "tc_primary", "tc_secondary",
     "tc_dns", "cl_unlink"}

\* Steps of the strategies, entered from the chain or from the loop.
StrategyPcs ==
    {"svc", "quick", "manual"}

\* Steps of the outer try block of run() that are outside the inner try (lines 410-424).
VerifyPcs ==
    {"tc_sleep", "tc_primary", "tc_secondary", "tc_classify", "diag_wg",
     "diag_ipconfig", "diag_route", "tc_dns", "tc_http"}

StopPcs ==
    {"stop_sc", "stop_quick", "stop_uninstall"}

CleanupPcs ==
    {"cl_exists", "cl_unlink"}

\* The flow is inside the inner try block of run(), lines 426-434.
InLoop ==
    \/ pc \in {"sleep", "check_wg", "check_sc"}
    \/ pc \in StrategyPcs /\ operand = 0

\* The flow is inside the outer try block only, lines 410-424.
InBringUp ==
    \/ pc \in StrategyPcs /\ operand # 0
    \/ pc \in VerifyPcs

\* A KeyboardInterrupt leaves run() before the try block; main() catches it (lines 471-473).
ToMainHandler ==
    /\ pc' = "cl_exists"
    /\ stack' = <<"main_exit">>
    /\ result' = "KeyboardInterrupt"

\* A KeyboardInterrupt (Ctrl+C) is raised at the current step.
KeyboardInterrupt ==
    /\ cnt.ints < MaxInterrupts
    /\ pc \notin {"done", "td_again", "td_end"}
    /\ cnt' = [cnt EXCEPT !.ints = @ + 1,
                          !.stops = IF InLoop THEN @ + 1 ELSE @]
    /\ \/ /\ pc = "is_admin"                    \* line 35: is_admin() returns False
          /\ NotElevated
          /\ UNCHANGED <<config_file, onDisk, ips, stopLog, tcLog>>
       \/ /\ pc \in {"ip0_primary", "tc_primary"}   \* line 135: on to the second lookup
          /\ pc' = (IF pc = "ip0_primary" THEN "ip0_secondary" ELSE "tc_secondary")
          /\ UNCHANGED <<stack, result, config_file, onDisk, ips, stopLog, tcLog, flags>>
       \/ /\ pc \in {"ip0_secondary", "tc_secondary"}  \* line 139
          /\ GotIp(UnableToDetermine)
          /\ UNCHANGED <<stack, result, config_file, onDisk, stopLog, tcLog, flags>>
       \/ /\ pc = "tc_dns"                      \* line 325
          /\ pc' = "tc_http"
          /\ tcLog' = Append(tcLog, "dns")
          /\ UNCHANGED <<stack, result, config_file, onDisk, ips, stopLog, flags>>
       \/ /\ pc = "cl_unlink"                   \* line 383
          /\ \E gone \in BOOLEAN : onDisk' = (onDisk /\ ~gone)
          /\ Return(stack)
          /\ UNCHANGED <<config_file, ips, stopLog, tcLog, flags>>
       \/ /\ pc \in {"find_paths", "find_PATH", "find_registry"}
          /\ ToMainHandler
          /\ UNCHANGED <<config_file, onDisk, ips, stopLog, tcLog, flags>>
       \/ /\ pc = "create"                      \* before line 147, before or after open()
          /\ ToMainHandler
          /\ \E cf \in {"None", "set"}, od \in BOOLEAN :
                /\ cf = "None" => od = onDisk
                /\ config_file' = cf
                /\ onDisk' = (onDisk \/ od)
          /\ UNCHANGED <<ips, stopLog, tcLog, flags>>
       \/ /\ InBringUp                          \* not an Exception: only the finally block runs
          /\ pc \notin SwallowPcs
          /\ pc' = "cl_exists"
          /\ stack' = <<"raise_ki">>
          /\ UNCHANGED <<result, config_file, onDisk, ips, stopLog, tcLog, flags>>
       \/ /\ InLoop                             \* lines 435-437
          /\ pc' = "stop_sc"
          /\ stack' = <<"cl_exists", "ret_true">>
          /\ stopLog' = <<>>
          /\ UNCHANGED <<result, config_file, onDisk, ips, tcLog, flags>>
       \/ /\ pc \in StopPcs                     \* inside the handler: leaves it
          /\ pc' = "cl_exists"
          /\ stack' = <<"raise_ki">>
          /\ flags' = [flags EXCEPT !.stopEscaped = TRUE]
          /\ UNCHANGED <<result, config_file, onDisk, ips, stopLog, tcLog>>
       \/ /\ pc = "cl_exists"                   \* line 379
          /\ IF Head(stack) = "main_exit"
             THEN pc' = "done" /\ result' = "crash" /\ stack' = <<>>
             ELSE ToMainHandler
          /\ UNCHANGED <<config_file, onDisk, ips, stopLog, tcLog, flags>>
    /\ UNCHANGED <<env, success, wireguard_path, operand, health, log, epLog, snap>>

run ==
    \/ is_admin
    \/ find_wireguard_installation
    \/ get_real_ip
    \/ create_config_file
    \/ start_tunnel_windows_service
    \/ start_tunnel_wg_quick
    \/ start_tunnel_manual_windows
    \/ test_connection
    \/ diagnose_windows_connection
    \/ supervision_sleep
    \/ health_check
    \/ stop_tunnel_windows
    \/ cleanup_windows

Next ==
    \/ run
    \/ KeyboardInterrupt

Spec ==
    Init /\ [][Next]_vars

\* ---- Teardown applied twice in a row from any state of the manager ----

\* The states the manager can be in when Teardown starts: the engine resolved
\* or not, the ConfigArtifact path chosen or not, the artifact written or not.
TeardownInit ==
    /\ pc = "stop_sc"
    /\ stack = <<"cl_exists", "td_again">>
    /\ result = "none"
    /\ wgExe \in BOOLEAN
    /\ wireguard_path \in {"None", "dir", ""}
    /\ config_file \in {"None", "set"}
    /\ onDisk \in BOOLEAN
    /\ onDisk => config_file = "set"
    /\ original_ip = "None"
    /\ new_ip = "None"
    /\ success = "unset"
    /\ operand = 1
    /\ wgShow = "notrun"
    /\ scQuery = "notrun"
    /\ log = <<>>
    /\ epLog = <<>>
    /\ stopLog = <<>>
    /\ tcLog = <<>>
    /\ cnt = [Cnt0 EXCEPT !.stops = 1]
    /\ flags = Flags0
    /\ snap = [taken |-> FALSE, hadArtifact |-> onDisk, mgr |-> mgr, stopLog |-> <<>>]
    /\ cfg = ParseAll(ParseStart(MainConfig))

\* The first Teardown is over: what it left is recorded and the second starts.
teardown_again ==
    /\ pc = "td_again"
    /\ snap' = [taken |-> TRUE, hadArtifact |-> snap.hadArtifact, mgr |-> mgr,
                stopLog |-> stopLog]
    /\ pc' = "stop_sc"
    /\ stack' = <<"cl_exists", "td_end">>
    /\ stopLog' = <<>>
    /\ cnt' = [cnt EXCEPT !.stops = @ + 1]
    /\ UNCHANGED <<result, env, success, mgr, ips, operand, health, log, epLog, tcLog, flags>>

NextTeardown ==
    \/ stop_tunnel_windows
    \/ cleanup_windows
    \/ teardown_again

SpecTeardown ==
    TeardownInit /\ [][NextTeardown]_vars

\* ---- parse_config() on every sequence of up to MaxLines configuration lines ----

\* Sequences of at most n lines.
LineSeqs(n) ==
    UNION {[1..m -> ConfigLines] : m \in 0..n}

\* __init__(), line 29, calls parse_config() on the text it was given.
ParseInit ==
    /\ cfg \in {ParseStart(ls) : ls \in LineSeqs(MaxLines)}
    /\ pc = "parse_config"
    /\ stack = <<>>
    /\ result = "none"
    /\ wgExe = FALSE
    /\ wireguard_path = "None"
    /\ config_file = "None"
    /\ onDisk = FALSE
    /\ original_ip = "None"
    /\ new_ip = "None"
    /\ success = "unset"
    /\ operand = 1
    /\ wgShow = "notrun"
    /\ scQuery = "notrun"
    /\ log = <<>>
    /\ epLog = <<>>
    /\ stopLog = <<>>
    /\ tcLog = <<>>
    /\ cnt = Cnt0
    /\ flags = Flags0
    /\ snap = NoSnap

\* parse_config(), lines 107-124: the loop body runs on the next line.
parse_config ==
    /\ pc = "parse_config"
    /\ cfg.i <= Len(cfg.lines)
    /\ ~cfg.raised
    /\ cfg' = ParseLine(cfg)
    /\ UNCHANGED <<pc, stack, result, wgExe, success, mgr, ips, operand, health, hist>>

NextParse ==
    parse_config

SpecParse ==
    ParseInit /\ [][NextParse]_vars

\* ---------------------------------------------------------------------
\* Properties
\* ---------------------------------------------------------------------

\* The place of a strategy in the order service-install, quick-up, manual-configure.
Ord(s) ==
    CASE s = "svc" -> 1 [] s = "quick" -> 2 [] OTHER -> 3

Range(q) ==
    {q[i] : i \in DOMAIN q}

Last(q) ==
    q[Len(q)]

\* The bring-up chain of run() is being evaluated.
InChain ==
    pc \in StrategyPcs /\ operand # 0

\* The supervision loop is in a Degraded episode: a restart attempt is running.
Degraded ==
    pc \in StrategyPcs /\ operand = 0

\* run() has entered verification or supervision.
EnteredVerification ==
    \/ pc \in VerifyPcs
    \/ InLoop
    \/ tcLog # <<>>
    \/ cnt.checks > 0
    \/ flags.unexpected

\* A KeyboardInterrupt is on its way out of run(), or has left it.
KeyboardInterruptRaised ==
    \/ stack = <<"raise_ki">>
    \/ result \in {"KeyboardInterrupt", "crash"}

\* C1: in the bring-up, when a strategy fails and the next one in the order,
\* tried right after it, succeeds, the chain is over with success = True and the
\* strategy after that one was not attempted; when the chain ends with every
\* attempt failed (and no interrupt cut it short), success = False, run()
\* returns False and never enters verification or supervision; verification
\* is entered only after a success.
C1_FirstSuccessWins ==
    /\ \A i \in 1..(Len(log) - 1) :
          ( /\ ~log[i][2]
            /\ log[i + 1][2]
            /\ Ord(log[i + 1][1]) = Ord(log[i][1]) + 1 )
          => /\ i + 1 = Len(log)
             /\ success = "True"
             /\ ~InChain
             /\ \A j \in DOMAIN log : Ord(log[j][1]) # Ord(log[i][1]) + 2
    /\ (log # <<>> /\ Last(log)[2]) => (success = "True" /\ ~InChain)
    /\ (log # <<>> /\ ~Last(log)[2] /\ ~InChain) =>
          \/ success = "False"
          \/ KeyboardInterruptRaised
    /\ success = "False" =>
          /\ \A i \in DOMAIN log : ~log[i][2]
          /\ ~EnteredVerification
          /\ pc \in CleanupPcs \cup {"done"}
          /\ result # "True"
          /\ (pc = "done" /\ cnt.ints = 0 => result = "False")
    /\ EnteredVerification => (success = "True" /\ log # <<>> /\ Last(log)[2])

\* C1 witness: service-install failed, quick-up succeeded, manual-configure was
\* not attempted and the manager is supervising the tunnel.
C1_Witness ==
    /\ Len(log) = 2
    /\ log[1] = <<"svc", FALSE>>
    /\ log[2] = <<"quick", TRUE>>
    /\ success = "True"
    /\ pc = "sleep"

\* C2: the strategies of the bring-up are invoked in the order service-install,
\* quick-up, manual-configure: each invocation follows only failed ones, and no
\* strategy is invoked after a later-ordered one has been invoked.
C2_StrictOrder ==
    \A i, j \in DOMAIN log :
       i < j => (~log[i][2] /\ Ord(log[i][1]) <= Ord(log[j][1]))

\* The shutdown commands of stop_tunnel_windows that can be issued on this
\* machine have all been issued.
StopActionsDone ==
    /\ "sc_stop" \in Range(stopLog)
    /\ "quick_down" \in Range(stopLog)
    /\ wgExe => "uninstall" \in Range(stopLog)

\* C3: an interrupt that arrives during activation, verification or
\* supervision (the states in which there is a tunnel to stop) ends what run()
\* was doing and starts stop_tunnel_windows.
C3_InterruptReachesTeardown ==
    [][ (cnt'.ints = cnt.ints + 1 /\ (InChain \/ pc \in VerifyPcs \/ InLoop))
           => pc' = "stop_sc" ]_vars

C5_States ==
    /\ cnt.restarts <= cnt.down
    /\ cnt.down <= cnt.restarts + 1
    /\ cnt.down = cnt.restarts + 1 =>
          \/ pc = "quick" /\ operand = 0 /\ epLog = <<>>
          \/ cnt.ints > 0
    /\ pc \in {"sleep", "check_wg", "check_sc"} =>
          (cnt.down = cnt.restarts /\ ~flags.restartFailed)
    /\ flags.restartFailed => (pc \in CleanupPcs \cup {"done"} /\ cnt.restarts = cnt.down)

\* C5, the steps: a step of a restart attempt that is not an interrupt leads back
\* to the sleep of the loop (the restart succeeded), to manual-configure (quick-up
\* failed), or out of the loop (the restart failed); after a failed restart the
\* counts of health checks and restarts never change.
C5_Steps ==
    /\ (Degraded /\ cnt'.ints = cnt.ints) =>
          \/ pc' = "sleep" /\ ~flags'.restartFailed /\ cnt'.checks = cnt.checks
          \/ pc = "quick" /\ pc' = "manual"
          \/ pc' = "cl_exists" /\ flags'.restartFailed
    /\ flags.restartFailed =>
          (cnt'.checks = cnt.checks /\ cnt'.restarts = cnt.restarts /\ flags'.restartFailed)

\* C5: each failed health check leads to exactly one restart attempt; a restart
\* that succeeds returns to polling, one that fails ends the loop for good.
C5_SingleRestart ==
    []C5_States /\ [][C5_Steps]_vars

\* C5 witness: a first restart succeeded, the loop polled again, a second
\* restart failed and run() has ended.
C5_Witness ==
    /\ flags.restartFailed
    /\ cnt.restarts = 2
    /\ cnt.checks = 2
    /\ pc = "done"

\* C6: the health check reports the tunnel down, and a restart is attempted,
\* exactly when neither query showed the tunnel present (cnt.absent counts the
\* checks whose engine status did not show the interface and whose service
\* list did not show RUNNING); with no such check there is no Degraded episode.
C6_DegradedOnlyWhenBothAbsent ==
    /\ cnt.down = cnt.absent
    /\ cnt.restarts <= cnt.absent
    /\ pc = "check_sc" => wgShow = "absent"
    /\ cnt.absent = 0 => (~Degraded /\ epLog = <<>> /\ ~flags.restartFailed)

\* C6 witness: consecutive health checks found the tunnel present and the
\* manager is still polling, with no restart attempted.
C6_Witness ==
    /\ cnt.checks = 2
    /\ cnt.absent = 0
    /\ cnt.restarts = 0
    /\ pc = "sleep"

\* C7: when run() ends after a failed restart, the stop actions were executed
\* and the ConfigArtifact is gone.
C7_FailedRestartTearsDown ==
    (pc = "done" /\ flags.restartFailed) => (cnt.stops > 0 /\ StopActionsDone /\ ~onDisk)

\* C8: when run() ends after the chain was exhausted, or after an unexpected
\* error, the stop actions were executed.
C8_FailureTearsDown ==
    (pc = "done" /\ (success = "False" \/ flags.unexpected)) => cnt.stops > 0

\* stop_tunnel_windows has been called and has returned.
StopReturned ==
    /\ cnt.stops > 0
    /\ pc \notin StopPcs
    /\ ~flags.stopEscaped

\* C9: when stop_tunnel_windows returns, service-stop, quick-down and
\* uninstall-tunnel-service (where the engine's executable exists) have each
\* been issued, whatever the others did.
C9_AllStopActionsAttempted ==
    StopReturned => StopActionsDone

\* C10 (as claimed): two Teardowns in a row raise nothing, leave no
\* ConfigArtifact on disk, and the second leaves the manager's state as the
\* first left it.
C10_TeardownIdempotent ==
    /\ result = "none"
    /\ pc \in {"td_again", "td_end"} => ~onDisk
    /\ pc = "td_end" => snap.mgr = mgr

\* C10 (amended): the same, provided no deletion of the ConfigArtifact failed;
\* a failing deletion raises nothing either.
C10_TeardownIdempotentUnlessUnlinkFails ==
    /\ result = "none"
    /\ (pc \in {"td_again", "td_end"} /\ cnt.unlinkFails = 0) => ~onDisk
    /\ (pc = "td_end" /\ cnt.unlinkFails = 0) => snap.mgr = mgr

\* C10 witness: Teardown ran twice from a state with the artifact on disk, the
\* two runs did not issue the same shutdown commands, and the artifact is gone.
C10_Witness ==
    /\ pc = "td_end"
    /\ snap.hadArtifact
    /\ cnt.unlinkFails = 0
    /\ snap.stopLog # stopLog
    /\ ~onDisk

\* Nothing of run() after the privilege check has happened: no engine found,
\* no IP looked up, no ConfigArtifact path chosen or written, no strategy
\* invoked, no verification step done.
NothingAttempted ==
    /\ wireguard_path = "None"
    /\ original_ip = "None"
    /\ new_ip = "None"
    /\ config_file = "None"
    /\ ~onDisk
    /\ log = <<>>
    /\ tcLog = <<>>
    /\ stopLog = <<>>

C11_States ==
    flags.notAdmin => (pc = "done" /\ result = "False" /\ NothingAttempted)

C11_Steps ==
    /\ (~flags.notAdmin /\ flags'.notAdmin) => (pc = "is_admin" /\ NothingAttempted)
    /\ flags.notAdmin => FALSE

\* C11: when the privilege check says not elevated, or itself errors, run()
\* returns failure straight from the check: the step that finds it out starts
\* at the check with nothing attempted, ends run() with False, and no step
\* (engine probe, IP lookup, ConfigArtifact write, strategy) follows it.
C11_NotElevatedFailsFast ==
    []C11_States /\ [][C11_Steps]_vars

\* C11 witness: run() is over because the privilege check failed.
C11_Witness ==
    flags.notAdmin /\ pc = "done" /\ result = "False"

\* run() is over, the privilege check passed, no Ctrl+C came and no probe
\* found the engine.
NoEngineFound ==
    /\ pc = "done"
    /\ ~flags.notAdmin
    /\ cnt.ints = 0
    /\ wireguard_path = "None"

\* C12: when none of the three probes finds the engine, a probe that errors
\* included, run() ends with failure (it does not crash), no ConfigArtifact
\* was written and no strategy was invoked.
C12_NoEngineAborts ==
    NoEngineFound =>
        (result = "False" /\ config_file = "None" /\ ~onDisk /\ log = <<>>)

\* diagnose_windows_connection has been called by this verification.
DiagnosticsInvoked ==
    pc = "diag_wg" \/ "diag_wg" \in Range(tcLog)

\* C13: the class verification gives the observed IP, for every observed IP:
\* equal to the IP observed before activation -> unchanged, and Diagnostics is
\* invoked; equal to the expected exit IP -> confirmed changed; any other IP ->
\* changed (unconfirmed); Diagnostics is invoked in no other case.
C13_ClassifiesAgainstPreTunnelIp ==
    (tcLog # <<>> /\ new_ip \in IpTexts) =>
        /\ (new_ip = original_ip /\ new_ip # VpnServerIp) =>
              (tcLog[1] = "unchanged" /\ DiagnosticsInvoked)
        /\ (new_ip = VpnServerIp /\ original_ip # VpnServerIp) =>
              (tcLog[1] = "confirmed changed" /\ ~DiagnosticsInvoked)
        /\ new_ip \notin {original_ip, VpnServerIp} =>
              (tcLog[1] = "changed (unconfirmed)" /\ ~DiagnosticsInvoked)

\* The three steps of test_connection have each been performed: the IP
\* classification first, then the DNS test, then the HTTP test.
VerificationDone ==
    /\ tcLog # <<>>
    /\ tcLog[1] \in {"confirmed changed", "changed (unconfirmed)", "unchanged"}
    /\ "dns" \in Range(tcLog)
    /\ Last(tcLog) = "http"

C14_States ==
    /\ (InLoop \/ cnt.checks > 0) => (success = "True" /\ VerificationDone)
    /\ pc \in VerifyPcs => (success = "True" /\ result = "none")

\* A step on which neither Ctrl+C nor an error outside the verification
\* outcomes arrives.
Undisturbed ==
    cnt'.ints = cnt.ints /\ ~flags'.unexpected

C14_Steps ==
    /\ (success # "True" /\ success' = "True" /\ Undisturbed) => pc' = "tc_sleep"
    /\ (pc \in VerifyPcs /\ Undisturbed) =>
          (pc' \in VerifyPcs \cup {"sleep"} /\ result' = "none" /\ success' = "True")
    /\ (pc = "tc_http" /\ Undisturbed) => pc' = "sleep"

\* C14: verification never fails the run. A strategy's success leads into
\* verification, every verification step leads to the next step or into the
\* supervision loop whatever its outcome (IP lookup failing or unchanged, DNS
\* failing, HTTP unreachable, Diagnostics failing), and the loop is entered
\* only with the IP classification, the DNS test and the HTTP test all done.
C14_VerificationNeverFailsRun ==
    []C14_States /\ [][C14_Steps]_vars

\* C14 witness: supervision is entered after the IP was found unchanged and
\* Diagnostics failed at its first step.
C14_Witness ==
    /\ pc = "sleep"
    /\ cnt.checks = 0
    /\ tcLog = <<"unchanged", "diag_wg", "dns", "http">>

\* diagnose_windows_connection was called and has returned to test_connection.
DiagnosticsReturned ==
    "diag_wg" \in Range(tcLog) /\ "dns" \in Range(tcLog)

\* C15: every invocation of Diagnostics performs each of its three steps
\* (engine interface list, OS adapter list, routing table), whatever the other
\* steps did, and raises nothing.
C15_DiagnosticsStepsIndependent ==
    DiagnosticsReturned =>
        (result = "none" /\ {"diag_ipconfig", "diag_route"} \subseteq Range(tcLog))

\* The greatest number of a non-empty set.
MaxOf(S) ==
    CHOOSE x \in S : \A y \in S : y <= x

\* The section line i of the text stands under: the lower-cased name of the
\* last header before it, <<"None">> before any header.
SectionOf(lines, i) ==
    LET hs == {j \in 1..(i - 1) : IsHeader(Strip(lines[j]))}
    IN  IF hs = {} THEN <<"None">> ELSE Lower(Inner(Strip(lines[MaxOf(hs)])))

\* A line that is not blank, not a comment, not a header, and holds '='.
EntryLine(l) ==
    /\ Strip(l) # <<>>
    /\ Head(Strip(l)) # "#"
    /\ ~IsHeader(Strip(l))
    /\ HasEq(l)

KeyOf(l) ==
    Strip(Split(Strip(l))[1])

ValueOf(l) ==
    Strip(Split(Strip(l))[2])

\* The entry lines among the first n lines that stand under section sec.
EntriesUnder(lines, n, sec) ==
    {i \in 1..n : EntryLine(lines[i]) /\ SectionOf(lines, i) = sec}

\* Mapping m holds the keys of the entry lines under sec among the first n
\* lines and no other key, each with the value of its last occurrence.
LastWins(lines, n, sec, m) ==
    /\ DOMAIN m = {KeyOf(lines[i]) : i \in EntriesUnder(lines, n, sec)}
    /\ \A k \in DOMAIN m :
          m[k] = ValueOf(lines[MaxOf({i \in EntriesUnder(lines, n, sec) : KeyOf(lines[i]) = k})])

C16_States ==
    /\ ~cfg.raised
    /\ LastWins(cfg.lines, cfg.i - 1, <<"interface">>, cfg.interface_config)
    /\ LastWins(cfg.lines, cfg.i - 1, <<"peer">>, cfg.peer_config)

C16_Steps ==
    LET l == cfg.lines[cfg.i]
    IN  (Strip(l) = <<>> \/ Head(Strip(l)) = "#" \/ ~HasEq(l)) =>
            /\ cfg'.interface_config = cfg.interface_config
            /\ cfg'.peer_config = cfg.peer_config

\* C16: for every sequence of configuration lines, after each line parsed the
\* two mappings hold exactly the keys of the '=' lines standing under
\* [Interface] and [Peer] (any letter case) among the lines parsed so far, so
\* keys under another section or before any header are dropped; each key has
\* the value of its last occurrence; a blank line, a '#' line and a line
\* without '=' change neither mapping; and nothing is raised.
C16_ParseConfig ==
    []C16_States /\ [][C16_Steps]_vars

\* C16 witness: a text is parsed to its end in which a key stands twice under
\* [Interface] with different values, the mapping holds the later value, and
\* another '=' line stands under no section or an unknown one.
C16_Witness ==
    /\ pc = "parse_config"
    /\ cfg.i > Len(cfg.lines)
    /\ \E i, j \in DOMAIN cfg.lines :
          /\ i < j
          /\ {i, j} \subseteq EntriesUnder(cfg.lines, Len(cfg.lines), <<"interface">>)
          /\ KeyOf(cfg.lines[i]) = KeyOf(cfg.lines[j])
          /\ ValueOf(cfg.lines[i]) # ValueOf(cfg.lines[j])
          /\ cfg.interface_config[KeyOf(cfg.lines[j])] = ValueOf(cfg.lines[j])
    /\ \E h \in DOMAIN cfg.lines :
          /\ EntryLine(cfg.lines[h])
          /\ SectionOf(cfg.lines, h) \notin {<<"interface">>, <<"peer">>}

C17_States ==
    flags.checkError =>
        /\ cnt.absent >= 1 /\ cnt.down = cnt.absent
        /\ pc \notin {"sleep", "check_wg", "check_sc"}

\* The step on which a health check whose query raised returns to the loop.
CheckErrorReturns ==
    pc \in {"check_wg", "check_sc"} /\ flags'.checkError

C17_Steps ==
    CheckErrorReturns =>
        /\ pc' = "quick" /\ operand' = 0 /\ epLog' = <<>>
        /\ cnt' = [cnt EXCEPT !.checks = @ + 1, !.down = @ + 1, !.absent = @ + 1]
        /\ wgShow' = "notrun" /\ scQuery' = "notrun"
        /\ UNCHANGED <<stack, result, success, mgr, ips, log, stopLog, tcLog, snap>>

\* C17: a health check whose engine query or service query raises returns to
\* the loop as a check that saw neither: it is counted down and absent,
\* nothing is raised into the loop (run()'s flow and result are untouched),
\* and the loop starts the same restart, at quick-up.
C17_CheckErrorMeansAbsent ==
    []C17_States /\ [][C17_Steps]_vars

\* C17 witness: the loop is restarting the tunnel after a health check whose
\* query raised.
C17_Witness ==
    flags.checkError /\ pc = "quick" /\ operand = 0 /\ cnt.ints = 0

\* C18: the ConfigArtifact is on disk when the first strategy is invoked;
\* when run() has ended, by whatever path, and no deletion failed, no
\* ConfigArtifact is on disk; and a deletion that failed lets run() end with
\* its value all the same. (Stated for runs without Ctrl+C, which is enough
\* to refute it.)
C18_NoArtifactLeftBehind ==
    /\ (pc \in StrategyPcs \/ log # <<>>) => config_file = "set"
    /\ (pc = "svc" /\ log = <<>>) => onDisk
    /\ (pc = "done" /\ cnt.ints = 0 /\ cnt.unlinkFails = 0) => ~onDisk
    /\ (pc = "done" /\ cnt.ints = 0 /\ cnt.unlinkFails > 0) => result \in {"True", "False"}

\* No strategy stands twice in a log of invocations.
InvokedAtMostOnce(q) ==
    \A i, j \in DOMAIN q : i # j => q[i][1] # q[j][1]

\* C19: within one bring-up and within one restart attempt each strategy is
\* invoked at most once, including when every strategy fails.
C19_EachStrategyAtMostOnce ==
    InvokedAtMostOnce(log) /\ InvokedAtMostOnce(epLog)

\* C20: when both lookup services failed during verification, so that no IP
\* was obtained, verification does not classify the IP as changed.
C20_NoIpIsNotChanged ==
    (tcLog # <<>> /\ new_ip = UnableToDetermine) =>
        tcLog[1] \notin {"confirmed changed", "changed (unconfirmed)"}

=============================================================================
